---- MODULE Spec2Model ----
(***************************************************************************)
(* The live analysis loop of SnarkBowl (src/src/App.tsx) as a state        *)
(* machine.  The file holds three builds of the App component:             *)
(*   "seg6"   lines   46-570   6 s ticks, ad-boundary detection, governor  *)
(*   "seg3"   lines  617-1134  3 s ticks, ad-boundary detection            *)
(*   "bubble" lines 1219-1786  4 s ticks, commentary bubbles, governor,    *)
(*                             ad-boundary detection switched off          *)
(* React state (useState) is held in variables that carry the value after  *)
(* every queued update; what the callbacks of the last render closed over  *)
(* is held in `view`, refreshed by Render.  What a startAnalysis call      *)
(* closed over lives in runs[r] for as long as its timer or one of its     *)
(* analyze calls can still run.                                            *)
(* Texts are sequences of tokens: words, the marks . ! ? and blanks.       *)
(* The rate limiter of the proxy (src/server.js) is modelled next to it,   *)
(* with a clock of its own.                                                *)
(***************************************************************************)
EXTENDS Integers, Sequences, FiniteSets, TLC

\* ---------------------------------------------------------------- bounds
MaxPresses == 3
MaxTicks == 2
MaxNow == 4
MaxLen == 4
MaxWindows == 1
MaxRequests == 402
MaxOther == 2

\* analyze calls outstanding at once
MaxInFlight == MaxTicks

\* ------------------------------------------------------------- constants
Variants == {"seg6", "seg3", "bubble"}

\* mutant: the bubble build detects ad boundaries too
SegmentingEvery(v) == v \in {"seg6", "seg3", "bubble"}

Segmenting(v) == v \in {"seg6", "seg3"}

HasGovernor(v) == v \in {"seg6", "bubble"}

\* mutant: every build adds 4 s a tick
TickMsFour(v) == 4000

TickMs(v) == CASE v = "seg6" -> 6000 [] v = "seg3" -> 3000 [] OTHER -> 4000

SESSION_LIMIT_MS == 20 * 60 * 1000

MaxBubbles == 5

MaxTropes == 9

VisibleTail == 2

BubbleLifeMs == 16000

ReleaseMs == 3000

RATE_LIMIT_WINDOW_MS == 60 * 60 * 1000

RATE_LIMIT_MAX == 400

\* the addresses that call the proxy
IPs == {"a", "b"}

\* rateLimitMap.get(ip) when the map has no entry for ip
NoEntry == [count |-> 0, resetTime |-> 0 - 1]

NoResponse ==
    [ip |-> "", status |-> 0, remaining |-> 0, retryAfter |-> 0, forwarded |-> FALSE]

SweepMs == 1000

NULL == "null"

UnknownBrand == "Unknown Brand"

TheyTried == <<"They", " ", "tried", ".">>

Delusion == <<"Another", " ", "$7M", " ", "delusion", ".">>

Analyzing == <<"Analyzing", ".", ".", ".">>

WATCHING_MESSAGES == { <<"Let", " ", "the", " ", "roasting", " ", "commence", ".">>,
                       <<"Tuning", " ", "in", ".", " ", "Prepare", " ", "for", " ", "opinions", ".">> }

Marks == {".", "!", "?"}

Blanks == {" "}

\* ------------------------------------------------------------ JS helpers
\* a || b for strings and null
JsOr(a, b) == IF a \in {NULL, ""} THEN b ELSE a

\* mutant: the empty text is kept
TextKept(a, b) == a

\* a || b for texts ('' is the empty text)
TextOr(a, b) == IF a = <<>> THEN b ELSE a

\* mutant: the first n are kept
SliceFirst(s, n) == IF Len(s) <= n THEN s ELSE SubSeq(s, 1, n)

\* arr.slice(-n)
SliceLast(s, n) == IF Len(s) <= n THEN s ELSE SubSeq(s, Len(s) - n + 1, Len(s))

RECURSIVE DropBlanks(_)
DropBlanks(t) == IF t # <<>> /\ Head(t) \in Blanks THEN DropBlanks(Tail(t)) ELSE t

RECURSIVE DropBlanksEnd(_)
DropBlanksEnd(t) ==
    IF t # <<>> /\ t[Len(t)] \in Blanks THEN DropBlanksEnd(SubSeq(t, 1, Len(t) - 1)) ELSE t

\* String.prototype.trim
Trim(t) == DropBlanksEnd(DropBlanks(t))

\* first index >= i of t that holds no blank (Len(t) + 1 when there is none)
RECURSIVE SkipBlanks(_, _)
SkipBlanks(t, i) == IF i <= Len(t) /\ t[i] \in Blanks THEN SkipBlanks(t, i + 1) ELSE i

\* mutant: cut at each run of blanks, whatever it follows
RECURSIVE SplitAtBlanks(_, _, _)
SplitAtBlanks(t, i, cur) ==
    IF i > Len(t) THEN <<cur>>
    ELSE IF t[i] \in Blanks
         THEN <<cur>> \o SplitAtBlanks(t, SkipBlanks(t, i), <<>>)
         ELSE SplitAtBlanks(t, i + 1, Append(cur, t[i]))

\* text.split(/(?<=[.!?])\s+/): cut at each run of blanks that follows a mark
RECURSIVE SplitFrom(_, _, _)
SplitFrom(t, i, cur) ==
    IF i > Len(t) THEN <<cur>>
    ELSE IF t[i] \in Blanks /\ i > 1 /\ t[i - 1] \in Marks
         THEN <<cur>> \o SplitFrom(t, SkipBlanks(t, i), <<>>)
         ELSE SplitFrom(t, i + 1, Append(cur, t[i]))

\* .filter(s => s.trim().length > 0)
KeepNonBlank(ss) == SelectSeq(ss, LAMBDA s : Trim(s) # <<>>)

\* the sentences addCommentaryBubbles pushes
Sentences(text) == KeepNonBlank(SplitFrom(text, 1, <<>>))

\* [...new Set(s)]: first occurrences, in order
RECURSIVE Dedup(_)
Dedup(s) ==
    IF s = <<>> THEN <<>>
    ELSE LET init == Dedup(SubSeq(s, 1, Len(s) - 1))
             x == s[Len(s)]
         IN IF \E k \in 1..Len(init) : init[k] = x THEN init ELSE Append(init, x)

\* content.replace(/[{}"]/g, '')
StripBraces(t) == SelectSeq(t, LAMBDA x : x \notin {"{", "}", "\""})

\* ----------------------------------------------------------------- state
VARIABLES
    variant,             \* which build of App runs
    now,                 \* Date.now()
    showIntro,           \* useState(true)
    camera,              \* the stream: "idle", "pending", "on", "denied", "stopped"
    isStreaming,         \* useState(false)
    error,               \* useState(null)
    hasAnalyzed,         \* useState(false)
    completedAds,        \* useState([]): the session history
    currentAdStart,      \* useState(0)
    sessionLimitHit,     \* useState(false)
    totalAnalysisTime,   \* totalAnalysisTimeRef.current
    analysis,            \* useState<AnalysisState>
    view,                \* what the callbacks of the last render closed over
    analysisIntervalRef, \* analysisIntervalRef.current: a run, or 0 for null
    runs,                \* per startAnalysis call: its closure and locals
    timers,              \* the runs whose setInterval is still active
    pendingStarts,       \* setTimeout(() => startAnalysis(), 100) not yet fired
    inflight,            \* analyzeFrame calls awaiting their result
    bubbleQueue,         \* bubbleQueueRef.current
    commentaryBubbles,   \* useState([])
    bubblePosition,      \* bubblePositionRef.current
    accentIndex,         \* accentIndexRef.current
    nPresses,            \* button presses so far
    nTicks,              \* analysis ticks so far
    stopped,             \* stopAnalysis ran and no startAnalysis since
    last,                \* the operation that led here, and its input
    apiKey,              \* server.js: whether process.env.OPENAI_API_KEY is set
    serverNow,           \* server.js: Date.now()
    rateLimitMap,        \* server.js: rateLimitMap, ip -> { count, resetTime }
    response,            \* server.js: the response to the last POST /api/analyze
    windowStart,         \* per ip, when its first counted request of the window came
    forwardedInWindow    \* per ip, the requests forwarded to the backend since then

vars == <<variant, now, showIntro, camera, isStreaming, error, hasAnalyzed,
          completedAds, currentAdStart, sessionLimitHit, totalAnalysisTime,
          analysis, view, analysisIntervalRef, runs, timers, pendingStarts,
          inflight, bubbleQueue, commentaryBubbles, bubblePosition, accentIndex,
          nPresses, nTicks, stopped, last,
          apiKey, serverNow, rateLimitMap, response, windowStart, forwardedInWindow>>

serverVars == <<apiKey, serverNow, rateLimitMap, response, windowStart, forwardedInWindow>>

appVars == <<variant, now, showIntro, camera, isStreaming, error, hasAnalyzed,
             completedAds, currentAdStart, sessionLimitHit, totalAnalysisTime,
             analysis, view, analysisIntervalRef, runs, timers, pendingStarts,
             inflight, bubbleQueue, commentaryBubbles, bubblePosition, accentIndex,
             nPresses, nTicks, stopped, last>>

cameraVars == <<showIntro, camera, isStreaming>>

bubbleVars == <<bubbleQueue, commentaryBubbles, bubblePosition, accentIndex>>

loopVars == <<analysisIntervalRef, runs, timers, pendingStarts, inflight>>

\* ----------------------------------------------------------- data shapes
EmptyAnalysis ==
    [isAnalyzing |-> FALSE, currentTheory |-> "", brandGuess |-> NULL,
     tropeDetected |-> <<>>, commentary |-> <<>>]

NoContext == [empty |-> TRUE, theory |-> "", recent |-> <<>>]

NoObs ==
    [commentary |-> <<>>, theory |-> "", brandGuess |-> NULL, tropesDetected |-> <<>>,
     isNewAd |-> FALSE, adSummaryOneLiner |-> <<>>]

\* the replies of the model that parse as JSON objects
Obs(c, t, b, n, s) ==
    [commentary |-> c, theory |-> t, brandGuess |-> b,
     tropesDetected |-> IF t = "" THEN <<>> ELSE <<"t1">>,
     isNewAd |-> n, adSummaryOneLiner |-> s]

TwoSentences == <<"a", ".", " ", "b", "!">>

OneSentence == <<"c", ".">>

Summary == <<"s", ".">>

Observations ==
    { Obs(TwoSentences, "T1", "Acme", FALSE, <<>>),   \* brand and theory
      Obs(OneSentence, "", NULL, FALSE, <<>>),        \* commentary alone
      Obs(OneSentence, "T2", NULL, FALSE, <<>>),      \* another theory, no brand
      Obs(TwoSentences, "", "Bolt", FALSE, <<>>),     \* another brand, no theory
      Obs(OneSentence, "", NULL, TRUE, Summary),      \* boundary, nothing else
      Obs(TwoSentences, "T2", "Bolt", TRUE, Summary), \* boundary with brand and theory
      Obs(OneSentence, "", NULL, TRUE, <<>>),         \* isNewAd without a summary
      Obs(OneSentence, "", NULL, FALSE, Summary) }    \* a summary without isNewAd

\* replies whose content is no JSON
RawContents == { <<"{", "x", ".", " ", "y", "?", " ", " ", "z", "!">> }

Snapshot ==
    [analysis |-> analysis, hasAnalyzed |-> hasAnalyzed, sessionLimitHit |-> sessionLimitHit,
     isStreaming |-> isStreaming, currentAdStart |-> currentAdStart, showIntro |-> showIntro]

Op(name, run, obs) == [op |-> name, run |-> run, obs |-> obs]

\* ------------------------------------------------------------------ Init
InitApp ==
    /\ variant \in Variants
    /\ now = 0
    /\ showIntro = TRUE
    /\ camera = "idle"
    /\ isStreaming = FALSE
    /\ error = NULL
    /\ hasAnalyzed = FALSE
    /\ completedAds = <<>>
    /\ currentAdStart = 0
    /\ sessionLimitHit = FALSE
    /\ totalAnalysisTime = 0
    /\ analysis = EmptyAnalysis
    /\ view = [analysis |-> EmptyAnalysis, hasAnalyzed |-> FALSE, sessionLimitHit |-> FALSE,
               isStreaming |-> FALSE, currentAdStart |-> 0, showIntro |-> TRUE]
    /\ analysisIntervalRef = 0
    /\ runs = <<>>
    /\ timers = {}
    /\ pendingStarts = <<>>
    /\ inflight = <<>>
    /\ bubbleQueue = <<>>
    /\ commentaryBubbles = <<>>
    /\ bubblePosition = "left"
    /\ accentIndex = 0
    /\ nPresses = 0
    /\ nTicks = 0
    /\ stopped = FALSE
    /\ last = Op("init", 0, NoObs)

\* server.js after app.listen
InitProxy ==
    /\ apiKey \in BOOLEAN
    /\ serverNow = 0
    /\ rateLimitMap = [ip \in IPs |-> NoEntry]
    /\ response = NoResponse
    /\ windowStart = [ip \in IPs |-> 0 - 1]
    /\ forwardedInWindow = [ip \in IPs |-> 0]

\* the page as loaded, served by a proxy that has its key
Init == InitApp /\ InitProxy /\ apiKey = TRUE

InitServer == InitApp /\ variant = "seg6" /\ InitProxy

\* --------------------------------------------------------------- records
\* mutant: the record is put first
Prepended(prev, session) == <<session>> \o prev

\* setCompletedAds(prev => [...prev, session])
Appended(prev, session) == Append(prev, session)

\* saveCurrentAd; startTime is the currentAdStart its closure captured
SaveCurrentAd(closureStart, brandGuess, oneLiner, commentaryLog) ==
    [id |-> now,
     brandGuess |-> JsOr(brandGuess, UnknownBrand),
     oneLiner |-> TextOr(oneLiner, Delusion),
     commentaryLog |-> commentaryLog,
     startTime |-> closureStart,
     endTime |-> now]

\* the commentary entries are held by their text
LastText(entries) == IF Len(entries) > 0 THEN entries[Len(entries)] ELSE TheyTried

\* the record stopAnalysis saves, from the analysis state its closure captured
StopRecord(v) ==
    SaveCurrentAd(v.currentAdStart,
                  JsOr(v.analysis.brandGuess, UnknownBrand),
                  LastText(v.analysis.commentary),
                  v.analysis.commentary)

\* mutant: the theory is not looked at
StopSavesBrandOnly(v) == v.analysis.brandGuess \notin {NULL, ""}

\* if (analysis.brandGuess || analysis.currentTheory)
StopSaves(v) == JsOr(v.analysis.brandGuess, v.analysis.currentTheory) \notin {NULL, ""}

\* mutant: the summary is not looked at
IsBoundaryAnyNewAd(o) == o.isNewAd

\* if (result.isNewAd && result.adSummaryOneLiner)
IsBoundary(o) == o.isNewAd /\ o.adSummaryOneLiner # <<>>

\* analysis.brandGuess || result.brandGuess || 'Unknown Brand', analysis.brandGuess
\* being the one the startAnalysis closure captured
BoundaryBrand(run, o) == JsOr(JsOr(run.capBrand, o.brandGuess), UnknownBrand)

BoundaryRecord(run, o) ==
    SaveCurrentAd(run.capAdStart, BoundaryBrand(run, o), o.adSummaryOneLiner,
                  run.runningCommentary)

\* mutant: the reset keeps the theory
ResetSegmentKeepTheory(a) ==
    [a EXCEPT !.commentary = <<>>, !.brandGuess = NULL, !.tropeDetected = <<>>]

\* mutant: the reset keeps the brand guess
ResetSegmentKeepBrand(a) ==
    [a EXCEPT !.commentary = <<>>, !.currentTheory = "", !.tropeDetected = <<>>]

\* setAnalysis(prev => ({...prev, commentary: [], currentTheory: '', brandGuess: null,
\*                       tropeDetected: []}))
ResetSegment(a) ==
    [a EXCEPT !.commentary = <<>>, !.currentTheory = "", !.brandGuess = NULL,
              !.tropeDetected = <<>>]

StickyTheory(prev, o) == JsOr(o.theory, prev.currentTheory)

\* mutant: the guess of the Observation overwrites the kept one
StickyBrandOverwrite(prev, o) == o.brandGuess

StickyBrand(prev, o) == JsOr(o.brandGuess, prev.brandGuess)

\* the setAnalysis update of a tick, with ad-boundary detection
ApplyObservation(prev, o) ==
    [prev EXCEPT !.commentary = Append(SliceLast(prev.commentary, VisibleTail), o.commentary),
                 !.currentTheory = StickyTheory(prev, o),
                 !.brandGuess = StickyBrand(prev, o),
                 !.tropeDetected = Dedup(prev.tropeDetected \o o.tropesDetected)]

\* the setAnalysis update of a tick, bubble build
ApplyObservationBubble(prev, o) ==
    [prev EXCEPT !.currentTheory = StickyTheory(prev, o),
                 !.brandGuess = StickyBrand(prev, o),
                 !.tropeDetected =
                     SliceLast(Dedup(prev.tropeDetected \o o.tropesDetected), MaxTropes)]

\* mutant: the theory is left out of the context
ContextWithoutTheory(o) == [empty |-> FALSE, theory |-> "", recent |-> o.commentary]

\* contextWindow = `Theory: ${result.theory}. Recent: ${result.commentary}`
Context(o) == [empty |-> FALSE, theory |-> o.theory, recent |-> o.commentary]

\* the object analyzeFrame returns when JSON.parse throws
Fallback(run, content) ==
    [commentary |-> TextOr(Trim(StripBraces(content)), Analyzing),
     theory |-> run.capTheory, brandGuess |-> NULL, tropesDetected |-> <<>>,
     isNewAd |-> FALSE, adSummaryOneLiner |-> <<>>]

Replies ==
    {[kind |-> "ok", obs |-> o, content |-> <<>>] : o \in Observations}
    \cup {[kind |-> "raw", obs |-> NoObs, content |-> c] : c \in RawContents}
    \cup {[kind |-> k, obs |-> NoObs, content |-> <<>>] : k \in {"error", "429"}}

\* --------------------------------------------------------------- actions
\* React has committed every queued update.  It does so before the next timer or
\* promise callback runs; only a press may still reach the callbacks of the
\* render before.
Committed == view = Snapshot

\* React commits the queued updates: the callbacks close over the new state
Render ==
    /\ view # Snapshot
    /\ view' = Snapshot
    /\ UNCHANGED <<serverVars, variant, now, cameraVars, error, hasAnalyzed, completedAds,
                   currentAdStart, sessionLimitHit, totalAnalysisTime, analysis,
                   loopVars, bubbleVars, nPresses, nTicks, stopped, last>>

\* handleEnter: dismiss the intro and ask for the camera
HandleEnter ==
    /\ view.showIntro
    /\ camera = "idle"
    /\ showIntro' = FALSE
    /\ camera' = "pending"
    /\ last' = Op("handleEnter", 0, NoObs)
    /\ UNCHANGED <<serverVars, variant, now, isStreaming, error, hasAnalyzed, completedAds,
                   currentAdStart, sessionLimitHit, totalAnalysisTime, analysis, view,
                   loopVars, bubbleVars, nPresses, nTicks, stopped>>

\* startCamera, once getUserMedia settles
StartCamera(granted) ==
    /\ Committed
    /\ camera = "pending"
    /\ camera' = IF granted THEN "on" ELSE "denied"
    /\ isStreaming' = IF granted /\ ~view.showIntro THEN TRUE ELSE isStreaming
    /\ error' = IF ~granted THEN "camera" ELSE IF ~view.showIntro THEN NULL ELSE error
    /\ last' = Op("startCamera", 0, NoObs)
    /\ UNCHANGED <<serverVars, variant, now, showIntro, hasAnalyzed, completedAds,
                   currentAdStart, sessionLimitHit, totalAnalysisTime, analysis, view,
                   loopVars, bubbleVars, nPresses, nTicks, stopped>>

\* stopCamera, which the cleanup of the component calls when it unmounts: the tracks
\* are stopped and the interval is cleared; React drops the two state updates of a
\* component that is unmounting
StopCamera ==
    /\ camera # "stopped"
    /\ camera' = "stopped"
    /\ timers' = timers \ {analysisIntervalRef}
    /\ analysisIntervalRef' = 0
    /\ last' = Op("stopCamera", 0, NoObs)
    /\ UNCHANGED <<serverVars, variant, now, showIntro, isStreaming, error, hasAnalyzed,
                   completedAds, currentAdStart, sessionLimitHit, totalAnalysisTime,
                   analysis, view, runs, pendingStarts, inflight, bubbleVars, nPresses,
                   nTicks, stopped>>

\* what the startAnalysis of the last render closed over
StartClosure ==
    [isStreaming |-> view.isStreaming, brandGuess |-> view.analysis.brandGuess,
     currentTheory |-> view.analysis.currentTheory, currentAdStart |-> view.currentAdStart]

\* stopAnalysis, as closed over by the last render
StopAnalysis ==
    /\ timers' = timers \ {analysisIntervalRef}
    /\ analysisIntervalRef' = 0
    /\ IF variant = "bubble"
       THEN bubbleQueue' = <<>> /\ commentaryBubbles' = <<>>
       ELSE UNCHANGED <<bubbleQueue, commentaryBubbles>>
    /\ completedAds' = IF StopSaves(view) THEN Appended(completedAds, StopRecord(view))
                       ELSE completedAds
    /\ analysis' = [analysis EXCEPT !.isAnalyzing = FALSE]
    /\ stopped' = TRUE
    /\ last' = Op("stopAnalysis", 0, NoObs)
    /\ UNCHANGED <<hasAnalyzed, pendingStarts>>

\* handleImmersiveAction: the single button
HandleImmersiveAction ==
    /\ ~view.showIntro
    /\ nPresses < MaxPresses
    /\ nPresses' = nPresses + 1
    /\ IF HasGovernor(variant) /\ view.sessionLimitHit
       THEN /\ last' = Op("pressIgnored", 0, NoObs)
            /\ UNCHANGED <<hasAnalyzed, analysis, pendingStarts, timers, analysisIntervalRef,
                           bubbleQueue, commentaryBubbles, completedAds, stopped>>
       ELSE IF ~view.analysis.isAnalyzing /\ ~view.hasAnalyzed
       THEN /\ hasAnalyzed' = TRUE
            /\ pendingStarts' = Append(pendingStarts, StartClosure)
            /\ last' = Op("pressStart", 0, NoObs)
            /\ UNCHANGED <<analysis, timers, analysisIntervalRef, bubbleQueue,
                           commentaryBubbles, completedAds, stopped>>
       ELSE IF view.analysis.isAnalyzing
       THEN StopAnalysis
       ELSE /\ analysis' = EmptyAnalysis
            /\ pendingStarts' = Append(pendingStarts, StartClosure)
            /\ last' = Op("pressRestart", 0, NoObs)
            /\ UNCHANGED <<hasAnalyzed, timers, analysisIntervalRef, bubbleQueue,
                           commentaryBubbles, completedAds, stopped>>
    /\ UNCHANGED <<serverVars, variant, now, cameraVars, error, currentAdStart, sessionLimitHit,
                   totalAnalysisTime, view, runs, inflight, bubblePosition, accentIndex,
                   nTicks>>

\* the closure and locals of a startAnalysis call
NewRun(c) ==
    [capBrand |-> c.brandGuess, capTheory |-> c.currentTheory, capAdStart |-> c.currentAdStart,
     contextWindow |-> NoContext, runningCommentary |-> <<>>]

\* startAnalysis, when a delayed start fires
StartAnalysis ==
    /\ Committed
    /\ pendingStarts # <<>>
    /\ pendingStarts' = Tail(pendingStarts)
    /\ stopped' = FALSE
    /\ LET c == Head(pendingStarts) IN
       IF ~c.isStreaming
       THEN /\ last' = Op("startIgnored", 0, NoObs)
            /\ UNCHANGED <<analysis, bubbleQueue, commentaryBubbles, currentAdStart, runs,
                           analysisIntervalRef, timers>>
       ELSE /\ analysis' = [ResetSegment(analysis) EXCEPT !.isAnalyzing = TRUE]
            /\ IF variant = "bubble"
               THEN /\ commentaryBubbles' = <<>>
                    /\ \E m \in WATCHING_MESSAGES : bubbleQueue' = <<m>>
               ELSE UNCHANGED <<bubbleQueue, commentaryBubbles>>
            /\ currentAdStart' = now
            /\ runs' = Append(runs, NewRun(c))
            /\ analysisIntervalRef' = Len(runs) + 1
            /\ timers' = timers \cup {Len(runs) + 1}
            /\ last' = Op("startAnalysis", Len(runs) + 1, NoObs)
    /\ UNCHANGED <<serverVars, variant, now, cameraVars, error, hasAnalyzed, completedAds,
                   sessionLimitHit, totalAnalysisTime, view, inflight, bubblePosition,
                   accentIndex, nPresses, nTicks>>

\* mutant: a tick adds nothing
SpentKept == totalAnalysisTime

\* mutant: the counter starts over once the limit was hit
SpentStartsOver == IF sessionLimitHit THEN 0 ELSE totalAnalysisTime + TickMs(variant)

\* the budget after this tick
Spent == IF HasGovernor(variant) THEN totalAnalysisTime + TickMs(variant)
         ELSE totalAnalysisTime

\* mutant: a tick without a snapshot goes on as one with a snapshot
GotFrameAlways(frame) == TRUE

\* if (frame), frame being what captureFrame returned
GotFrame(frame) == frame

\* one firing of the setInterval callback of run r, up to its await; frame tells
\* whether captureFrame returns a frame.  The clock and the proxy are left to the
\* actions built from it.
TickCore(r, frame) ==
    /\ Committed
    /\ r \in timers
    /\ nTicks' = nTicks + 1
    /\ totalAnalysisTime' = Spent
    /\ IF HasGovernor(variant) /\ Spent >= SESSION_LIMIT_MS
       THEN /\ sessionLimitHit' = TRUE
            /\ timers' = timers \ {analysisIntervalRef}
            /\ analysisIntervalRef' = 0
            /\ analysis' = [analysis EXCEPT !.isAnalyzing = FALSE]
            /\ last' = Op("limit", r, NoObs)
            /\ UNCHANGED inflight
       ELSE /\ last' = Op(IF frame THEN "analyze" ELSE "noFrame", r, NoObs)
            /\ IF ~GotFrame(frame)
               THEN UNCHANGED inflight
               ELSE /\ Len(inflight) < MaxInFlight
                    /\ inflight' =
                         Append(inflight, [run |-> r, context |-> runs[r].contextWindow])
            /\ UNCHANGED <<sessionLimitHit, timers, analysisIntervalRef, analysis>>
    /\ UNCHANGED <<variant, cameraVars, error, hasAnalyzed, completedAds, currentAdStart,
                   view, runs, pendingStarts, bubbleVars, nPresses, stopped>>

\* the firing seen from the page alone
TickBody(r, frame) ==
    /\ TickCore(r, frame)
    /\ UNCHANGED <<serverVars, now>>

\* a tick of a short session
Tick(r, frame) ==
    /\ nTicks < MaxTicks
    /\ TickBody(r, frame)

\* the number of ticks that spends the budget
LimitTick(v) == (SESSION_LIMIT_MS + TickMs(v) - 1) \div TickMs(v)

\* a tick of a long session: captureFrame returns null (no video element, no 2d
\* context) until MaxTicks ticks before the budget is spent; the timers that are
\* left tick on after that
LongTick(r, frame) ==
    /\ nTicks < LimitTick(variant) + MaxTicks
    /\ frame => nTicks + MaxTicks >= LimitTick(variant)
    /\ TickBody(r, frame)

RemoveAt(s, i) == SubSeq(s, 1, i - 1) \o SubSeq(s, i + 1, Len(s))

\* what analyzeFrame returns for a reply (NoObs standing for null)
Result(run, reply) ==
    CASE reply.kind = "ok" -> reply.obs
      [] reply.kind = "raw" -> Fallback(run, reply.content)
      [] OTHER -> NoObs

\* mutant: a failure sets no message
ErrorAfterSilent(reply) == error

\* setError of analyzeFrame
ErrorAfter(reply) ==
    CASE reply.kind = "error" -> "failed"
      [] reply.kind = "429" -> IF variant = "seg3" THEN "failed" ELSE "rateLimit"
      [] OTHER -> error

\* if (result) { ... } with ad-boundary detection
ApplySegmenting(r, o) ==
    LET run == runs[r]
        kept == IF IsBoundary(o) THEN <<>> ELSE run.runningCommentary
    IN /\ completedAds' = IF IsBoundary(o) THEN Appended(completedAds, BoundaryRecord(run, o))
                          ELSE completedAds
       /\ currentAdStart' = IF IsBoundary(o) THEN now ELSE currentAdStart
       /\ analysis' = ApplyObservation(IF IsBoundary(o) THEN ResetSegment(analysis)
                                       ELSE analysis, o)
       /\ runs' = [runs EXCEPT ![r].runningCommentary = Append(kept, o.commentary),
                               ![r].contextWindow = Context(o)]
       /\ UNCHANGED bubbleQueue

\* if (result) { ... } of the bubble build
ApplyBubble(r, o) ==
    /\ runs' = [runs EXCEPT ![r].runningCommentary = Append(@, o.commentary),
                            ![r].contextWindow = Context(o)]
    /\ bubbleQueue' = bubbleQueue \o Sentences(o.commentary)
    /\ analysis' = ApplyObservationBubble(analysis, o)
    /\ UNCHANGED <<completedAds, currentAdStart>>

\* the analyze call i returns and the callback runs on from its await
Complete(i, reply) ==
    /\ Committed
    /\ i \in 1..Len(inflight)
    /\ inflight' = RemoveAt(inflight, i)
    /\ error' = ErrorAfter(reply)
    /\ LET r == inflight[i].run IN
       IF reply.kind \in {"ok", "raw"}
       THEN /\ IF Segmenting(variant)
               THEN ApplySegmenting(r, Result(runs[r], reply))
               ELSE ApplyBubble(r, Result(runs[r], reply))
            /\ last' = Op("result", r, Result(runs[r], reply))
       ELSE /\ last' = Op("noResult", r, NoObs)
            /\ UNCHANGED <<completedAds, currentAdStart, analysis, runs, bubbleQueue>>
    /\ UNCHANGED <<serverVars, variant, now, cameraVars, hasAnalyzed, sessionLimitHit,
                   totalAnalysisTime, view, analysisIntervalRef, timers, pendingStarts,
                   commentaryBubbles, bubblePosition, accentIndex, nPresses, nTicks, stopped>>

\* the value undefined, which a template string prints as this word
Undefined == <<"undefined">>

\* a reply that parses as a JSON object and has no commentary
Incomplete ==
    [commentary |-> Undefined, theory |-> "T1", brandGuess |-> NULL, tropesDetected |-> <<>>,
     isNewAd |-> FALSE, adSummaryOneLiner |-> <<>>]

\* the analyze call i returns such an object, which analyzeFrame hands on as it is.
\* The bubble build pushes undefined to runningCommentary and then calls
\* addCommentaryBubbles, where undefined.split throws: the rest of the callback is not
\* run and the promise of the async callback is rejected with nobody to catch it.  The
\* builds with ad-boundary detection apply it as any Observation.
CompleteIncomplete(i) ==
    /\ Committed
    /\ i \in 1..Len(inflight)
    /\ inflight' = RemoveAt(inflight, i)
    /\ LET r == inflight[i].run IN
       IF Segmenting(variant)
       THEN /\ ApplySegmenting(r, Incomplete)
            /\ last' = Op("result", r, Incomplete)
       ELSE /\ runs' = [runs EXCEPT ![r].runningCommentary = Append(@, Undefined)]
            /\ last' = Op("threw", r, Incomplete)
            /\ UNCHANGED <<completedAds, currentAdStart, analysis, bubbleQueue>>
    /\ UNCHANGED <<serverVars, variant, now, cameraVars, error, hasAnalyzed, sessionLimitHit,
                   totalAnalysisTime, view, analysisIntervalRef, timers, pendingStarts,
                   commentaryBubbles, bubblePosition, accentIndex, nPresses, nTicks, stopped>>

\* mutant: black and red change places
PaletteSwapped == <<"green", "red", "black">>

Palette == <<"green", "black", "red">>

\* mutant: the release takes the sentence queued last
ReleasedNewest(t) ==
    SliceLast(Append(commentaryBubbles,
                     [id |-> t, text |-> Trim(bubbleQueue[Len(bubbleQueue)]),
                      position |-> bubblePosition,
                      accent |-> Palette[(accentIndex % Len(Palette)) + 1],
                      createdAt |-> t]),
              MaxBubbles)

\* the bubble list after the release timer, firing at time t, took a sentence
Released(t) ==
    SliceLast(Append(commentaryBubbles,
                     [id |-> t, text |-> Trim(Head(bubbleQueue)),
                      position |-> bubblePosition,
                      accent |-> Palette[(accentIndex % Len(Palette)) + 1],
                      createdAt |-> t]),
              MaxBubbles)

\* the release timer: one sentence of the queue becomes a bubble
Release ==
    /\ Committed
    /\ variant = "bubble"
    /\ bubbleQueue # <<>>
    /\ bubbleQueue' = Tail(bubbleQueue)
    /\ bubblePosition' = IF bubblePosition = "left" THEN "right" ELSE "left"
    /\ accentIndex' = accentIndex + 1
    /\ commentaryBubbles' = Released(now)
    /\ last' = Op("release", 0, NoObs)
    /\ UNCHANGED <<serverVars, variant, now, cameraVars, error, hasAnalyzed, completedAds,
                   currentAdStart, sessionLimitHit, totalAnalysisTime, analysis, view,
                   loopVars, nPresses, nTicks, stopped>>

\* mutant: a bubble of exactly 16 s stays
SweptInclusive(bubbles, t) == SelectSeq(bubbles, LAMBDA b : t - b.createdAt <= BubbleLifeMs)

\* prev.filter(bubble => now - bubble.createdAt < 16000)
Swept(bubbles, t) == SelectSeq(bubbles, LAMBDA b : t - b.createdAt < BubbleLifeMs)

\* the expiry sweep
Sweep ==
    /\ Committed
    /\ variant = "bubble"
    /\ commentaryBubbles # <<>>
    /\ commentaryBubbles' = Swept(commentaryBubbles, now)
    /\ last' = Op("sweep", 0, NoObs)
    /\ UNCHANGED <<serverVars, variant, now, cameraVars, error, hasAnalyzed, completedAds,
                   currentAdStart, sessionLimitHit, totalAnalysisTime, analysis, view,
                   loopVars, bubbleQueue, bubblePosition, accentIndex, nPresses, nTicks,
                   stopped>>

\* a second passes.  In the bubble build both effects set their interval when the
\* component mounts:
\* the release timer is due every third second and runs first, the sweep is due
\* every second.  A delayed start (100 ms) has fired before the second is over.
\* The clock runs on for as long as a sentence or a bubble is left.
Second ==
    /\ Committed
    /\ pendingStarts = <<>>
    /\ now < MaxNow * SweepMs \/ bubbleQueue # <<>> \/ commentaryBubbles # <<>>
    /\ now' = now + SweepMs
    /\ IF variant = "bubble" /\ (now + SweepMs) % ReleaseMs = 0 /\ bubbleQueue # <<>>
       THEN /\ bubbleQueue' = Tail(bubbleQueue)
            /\ bubblePosition' = IF bubblePosition = "left" THEN "right" ELSE "left"
            /\ accentIndex' = accentIndex + 1
            /\ commentaryBubbles' = Swept(Released(now + SweepMs), now + SweepMs)
            /\ last' = Op("release", 0, NoObs)
       ELSE /\ commentaryBubbles' = Swept(commentaryBubbles, now + SweepMs)
            /\ last' = Op("sweep", 0, NoObs)
            /\ UNCHANGED <<bubbleQueue, bubblePosition, accentIndex>>
    /\ UNCHANGED <<serverVars, variant, cameraVars, error, hasAnalyzed, completedAds,
                   currentAdStart, sessionLimitHit, totalAnalysisTime, analysis, view,
                   loopVars, nPresses, nTicks, stopped>>

\* ------------------------------------------------------------- server.js
\* mutant: an entry is counted on for ever
CurrentEntryKept(ip, t) ==
    IF rateLimitMap[ip] = NoEntry
    THEN [count |-> 0, resetTime |-> t + RATE_LIMIT_WINDOW_MS]
    ELSE rateLimitMap[ip]

\* checkRateLimit: the entry it counts on, a new one if there is none or its window
\* is over
CurrentEntry(ip, t) ==
    IF rateLimitMap[ip] = NoEntry \/ t > rateLimitMap[ip].resetTime
    THEN [count |-> 0, resetTime |-> t + RATE_LIMIT_WINDOW_MS]
    ELSE rateLimitMap[ip]

\* mutant: one call more is let through
AllowedOneMore(count) == count <= RATE_LIMIT_MAX + 1

\* allowed: entry.count <= RATE_LIMIT_MAX
Allowed(count) == count <= RATE_LIMIT_MAX

\* mutant: the difference is not cut off at 0
RemainingSigned(count) == RATE_LIMIT_MAX - count

\* remaining: Math.max(0, RATE_LIMIT_MAX - entry.count)
Remaining(count) == IF RATE_LIMIT_MAX - count > 0 THEN RATE_LIMIT_MAX - count ELSE 0

\* checkRateLimit(ip) at time t, the entry counted up
CheckRateLimit(ip, t) ==
    LET entry == [CurrentEntry(ip, t) EXCEPT !.count = @ + 1]
    IN [entry |-> entry, allowed |-> Allowed(entry.count),
        remaining |-> Remaining(entry.count), resetTime |-> entry.resetTime]

\* Math.ceil(ms / 1000) for ms >= 0
CeilSeconds(ms) == (ms + 999) \div 1000

\* what the backend answers: its status, or 0 when fetch throws
Upstream == {200, 401, 429, 0}

\* the status the proxy passes on for a forwarded request
ProxyStatus(upstream) == IF upstream = 0 THEN 500 ELSE upstream

\* the requests an address may send in one window
RequestCap(ip) == IF ip = "a" THEN MaxRequests ELSE MaxOther

\* POST /api/analyze from ip at time t; upstream is what the backend would answer
PostAnalyze(ip, upstream, t) ==
    /\ CurrentEntry(ip, t).count < RequestCap(ip)
    /\ IF ~apiKey
       THEN /\ response' = [ip |-> ip, status |-> 400, remaining |-> 0 - 1,
                            retryAfter |-> 0 - 1, forwarded |-> FALSE]
            /\ UNCHANGED <<rateLimitMap, windowStart, forwardedInWindow>>
       ELSE LET limit == CheckRateLimit(ip, t)
                sameWindow == /\ windowStart[ip] >= 0
                              /\ t <= windowStart[ip] + 3600000
            IN /\ rateLimitMap' = [rateLimitMap EXCEPT ![ip] = limit.entry]
               /\ response' =
                      IF limit.allowed
                      THEN [ip |-> ip, status |-> ProxyStatus(upstream),
                            remaining |-> limit.remaining, retryAfter |-> 0 - 1,
                            forwarded |-> TRUE]
                      ELSE [ip |-> ip, status |-> 429, remaining |-> limit.remaining,
                            retryAfter |-> CeilSeconds(limit.resetTime - t),
                            forwarded |-> FALSE]
               /\ windowStart' =
                      IF sameWindow THEN windowStart ELSE [windowStart EXCEPT ![ip] = t]
               /\ forwardedInWindow' =
                      [forwardedInWindow EXCEPT
                          ![ip] = (IF sameWindow THEN @ ELSE 0) + (IF limit.allowed THEN 1 ELSE 0)]

\* the request handled at the server's time, seen from the server alone
Analyze(ip, upstream) ==
    /\ PostAnalyze(ip, upstream, serverNow)
    /\ UNCHANGED <<appVars, apiKey, serverNow>>

\* mutant: an entry is swept already at the end of its window
StaleAtReset(entry, t) == entry # NoEntry /\ t >= entry.resetTime

\* the cleanup interval's test on an entry of the map: now > entry.resetTime
Stale(entry, t) == entry # NoEntry /\ t > entry.resetTime

\* the cleanup interval: stale entries are deleted
Cleanup ==
    /\ \E ip \in IPs : Stale(rateLimitMap[ip], serverNow)
    /\ rateLimitMap' =
           [ip \in IPs |-> IF Stale(rateLimitMap[ip], serverNow)
                           THEN NoEntry ELSE rateLimitMap[ip]]
    /\ UNCHANGED <<appVars, apiKey, serverNow, response, windowStart, forwardedInWindow>>

\* the server's clock moves on, by a millisecond or by the length of a window
Elapse(ms) ==
    /\ serverNow + ms <= MaxWindows * RATE_LIMIT_WINDOW_MS + 1
    /\ (serverNow + ms) % RATE_LIMIT_WINDOW_MS <= 1
    /\ serverNow' = serverNow + ms
    /\ UNCHANGED <<appVars, apiKey, rateLimitMap, response, windowStart, forwardedInWindow>>

ServerNext ==
    \/ \E ip \in IPs, upstream \in Upstream : Analyze(ip, upstream)
    \/ Cleanup
    \/ \E ms \in {1, RATE_LIMIT_WINDOW_MS} : Elapse(ms)

\* server.js, with the key configured or not; the page stays as loaded
SpecServer == InitServer /\ [][ServerNext]_vars

\* the steps every build takes
LoopNext ==
    \/ Render
    \/ HandleEnter
    \/ \E granted \in BOOLEAN : StartCamera(granted)
    \/ HandleImmersiveAction
    \/ StartAnalysis
    \/ \E r \in timers, frame \in BOOLEAN : Tick(r, frame)
    \/ \E i \in 1..Len(inflight), reply \in Replies : Complete(i, reply)

\* the two timers of the bubble build
BubbleNext ==
    \/ Release
    \/ Sweep

Next == LoopNext \/ BubbleNext

\* all three builds; the clock stands still, so every timestamp is that of the load
Spec == Init /\ [][Next]_vars

InitSeg == Init /\ Segmenting(variant)

\* the two builds with ad-boundary detection
SpecSeg == InitSeg /\ [][LoopNext]_vars

InitBubble == Init /\ variant = "bubble"

\* the bubble build
SpecBubble == InitBubble /\ [][Next]_vars

InitLoop == Init /\ variant \in {"seg6", "bubble"}

\* the 6 s build and the bubble build without the release and sweep timers, which
\* neither read nor write the analysis state, the history, the timers or the calls
SpecLoop == InitLoop /\ [][LoopNext]_vars

Example ==
    <<"This", " ", "is", " ", "bad", ".", " ", "Really", " ", "bad", "!">>

\* every text of up to MaxLen tokens out of a word, a mark and a blank, and the
\* example of the specification
SplitTexts == UNION { [1..n -> {"w", ".", " "}] : n \in 0..MaxLen } \cup {Example}

SplitReplies ==
    {[kind |-> "ok", obs |-> Obs(c, "", NULL, FALSE, <<>>), content |-> <<>>] : c \in SplitTexts}

SplitNext ==
    \/ Render
    \/ HandleEnter
    \/ StartCamera(TRUE)
    \/ HandleImmersiveAction
    \/ StartAnalysis
    \/ \E r \in timers : nTicks = 0 /\ Tick(r, TRUE)
    \/ \E i \in 1..Len(inflight), reply \in SplitReplies : Complete(i, reply)
    \/ Release

\* the bubble build with one analyze call, whose commentary is any short text
SpecSplit == InitBubble /\ [][SplitNext]_vars

\* the replies that differ in their commentary alone
FlowReplies ==
    {reply \in Replies :
        \/ reply.kind = "raw"
        \/ /\ reply.kind = "ok"
           /\ reply.obs.theory = ""
           /\ ~reply.obs.isNewAd
           /\ reply.obs.adSummaryOneLiner = <<>>}

FlowNext ==
    \/ Render
    \/ HandleEnter
    \/ \E granted \in BOOLEAN : StartCamera(granted)
    \/ HandleImmersiveAction
    \/ StartAnalysis
    \/ \E r \in timers, frame \in BOOLEAN : Tick(r, frame)
    \/ \E i \in 1..Len(inflight), reply \in FlowReplies : Complete(i, reply)
    \/ Release

\* the bubble build, fed with replies that differ in their commentary; the sweep
\* removes nothing while the clock stands still
SpecFlow == InitBubble /\ [][FlowNext]_vars

GovernorNext ==
    \/ Render
    \/ HandleEnter
    \/ \E granted \in BOOLEAN : StartCamera(granted)
    \/ HandleImmersiveAction
    \/ StartAnalysis
    \/ \E r \in timers, frame \in BOOLEAN : LongTick(r, frame)
    \/ \E i \in 1..Len(inflight), reply \in Replies : Complete(i, reply)

InitGovernor == Init /\ HasGovernor(variant)

\* the two builds with the session limit, run until the budget is spent
SpecGovernor == InitGovernor /\ [][GovernorNext]_vars

\* presses, ticks and replies fall into the first MaxNow seconds; production is
\* silent after that.  No press comes before React has committed the one before.
Producing == now < MaxNow * SweepMs

\* the reply with the most sentences: three a call keep the release timer busy
\* long after the production has ended
ExpiryReplies == {reply \in Replies : reply.kind = "raw"}

ExpiryNext ==
    \/ Render
    \/ HandleEnter
    \/ StartCamera(TRUE)
    \/ Producing /\ Committed /\ HandleImmersiveAction
    \/ StartAnalysis
    \/ \E r \in timers : Producing /\ Tick(r, TRUE)
    \/ \E i \in 1..Len(inflight), reply \in ExpiryReplies : Producing /\ Complete(i, reply)
    \/ Second

\* the bubble build with the clock running and both bubble timers on schedule
SpecExpiry == InitBubble /\ [][ExpiryNext]_vars

\* React commits, the delayed start fires and the clock runs
SpecExpiryLive ==
    SpecExpiry /\ WF_vars(Render) /\ WF_vars(StartAnalysis) /\ WF_vars(Second)

\* the bubble build with every reply, without the release and sweep timers
SpecTicks == InitBubble /\ [][LoopNext]_vars

\* the page behind the proxy, from the address "a", in a window of the rate limit in
\* which that address has already sent 399 or 400 requests
InitThrottle ==
    /\ InitApp
    /\ variant \in {"seg6", "bubble"}
    /\ apiKey = TRUE
    /\ serverNow = 0
    /\ \E n \in {RATE_LIMIT_MAX - 1, RATE_LIMIT_MAX} :
          /\ rateLimitMap =
                 [ip \in IPs |-> IF ip = "a"
                                 THEN [count |-> n, resetTime |-> RATE_LIMIT_WINDOW_MS]
                                 ELSE NoEntry]
          /\ forwardedInWindow = [ip \in IPs |-> IF ip = "a" THEN n ELSE 0]
    /\ windowStart = [ip \in IPs |-> IF ip = "a" THEN 0 ELSE 0 - 1]
    /\ response = NoResponse

\* the interval of run r falls due, one period after the start or the tick before, and
\* the request of the tick is handled by the proxy; the answer to the tick before has
\* arrived by then
FetchTick(r, upstream) ==
    /\ nTicks < MaxTicks
    /\ inflight = <<>>
    /\ Spent < SESSION_LIMIT_MS
    /\ now' = now + TickMs(variant)
    /\ serverNow' = serverNow + TickMs(variant)
    /\ TickCore(r, TRUE)
    /\ PostAnalyze("a", upstream, serverNow + TickMs(variant))
    /\ UNCHANGED apiKey

\* the replies analyzeFrame can make of the response of the proxy
Answers ==
    {reply \in Replies :
        CASE response.status = 200 -> reply.kind \in {"ok", "raw"}
          [] response.status = 429 -> reply.kind = "429"
          [] OTHER -> reply.kind = "error"}

ThrottleNext ==
    \/ Render
    \/ HandleEnter
    \/ StartCamera(TRUE)
    \/ Committed /\ HandleImmersiveAction
    \/ StartAnalysis
    \/ \E r \in timers, upstream \in Upstream : FetchTick(r, upstream)
    \/ \E i \in 1..Len(inflight), reply \in Answers : Complete(i, reply)

\* the 6 s build and the bubble build behind the proxy, on one clock
SpecThrottle == InitThrottle /\ [][ThrottleNext]_vars

\* a tick of a run long enough to outgrow the commentary kept on screen
LogTick(r) ==
    /\ nTicks < MaxTicks + VisibleTail
    /\ TickBody(r, TRUE)

\* Observations with two different commentaries, and a boundary
LogReplies ==
    {[kind |-> "ok", obs |-> o, content |-> <<>>] :
        o \in { Obs(TwoSentences, "T1", "Acme", FALSE, <<>>),
                Obs(OneSentence, "", NULL, FALSE, <<>>),
                Obs(OneSentence, "", NULL, TRUE, Summary) }}

LogNext ==
    \/ Render
    \/ HandleEnter
    \/ StartCamera(TRUE)
    \/ Committed /\ HandleImmersiveAction
    \/ StartAnalysis
    \/ \E r \in timers : LogTick(r)
    \/ \E i \in 1..Len(inflight), reply \in LogReplies : Complete(i, reply)

\* the two builds with ad-boundary detection, in runs of more than three ticks
SpecLog == InitSeg /\ [][LogNext]_vars

\* a tick of a run in which a call can follow two Observations
ContextTick(r, frame) ==
    /\ nTicks < MaxTicks + 1
    /\ TickBody(r, frame)

\* two Observations that differ in theory and commentary, a boundary, and a failure
ContextReplies ==
    {[kind |-> "ok", obs |-> o, content |-> <<>>] :
        o \in { Obs(TwoSentences, "T1", "Acme", FALSE, <<>>),
                Obs(OneSentence, "", NULL, FALSE, <<>>),
                Obs(TwoSentences, "T2", "Bolt", TRUE, Summary) }}
    \cup {[kind |-> "error", obs |-> NoObs, content |-> <<>>]}

ContextNext ==
    \/ Render
    \/ HandleEnter
    \/ StartCamera(TRUE)
    \/ Committed /\ HandleImmersiveAction
    \/ StartAnalysis
    \/ \E r \in timers, frame \in BOOLEAN : ContextTick(r, frame)
    \/ \E i \in 1..Len(inflight), reply \in ContextReplies : Complete(i, reply)

\* the 6 s build and the bubble build, in runs of three ticks
SpecContext == InitLoop /\ [][ContextNext]_vars

AtomicNext ==
    \/ LoopNext
    \/ \E i \in 1..Len(inflight) : CompleteIncomplete(i)

\* the bubble build with every reply, the schema-incomplete one included
SpecAtomic == InitBubble /\ [][AtomicNext]_vars

\* an Observation with commentary, theory, brand guess and a trope
RestartReplies ==
    {[kind |-> "ok", obs |-> Obs(TwoSentences, "T1", "Acme", FALSE, <<>>), content |-> <<>>]}

RestartNext ==
    \/ Render
    \/ HandleEnter
    \/ StartCamera(TRUE)
    \/ HandleImmersiveAction
    \/ StartAnalysis
    \/ \E r \in timers : Tick(r, TRUE)
    \/ \E i \in 1..Len(inflight), reply \in RestartReplies : Complete(i, reply)
    \/ variant = "bubble" /\ Release

\* the three builds, with runs that leave something behind for the next start
SpecRestart == Init /\ [][RestartNext]_vars

\* the component is mounted
Mounted == camera # "stopped"

\* an Observation and a failure
MountReplies ==
    {[kind |-> "ok", obs |-> Obs(TwoSentences, "T1", "Acme", FALSE, <<>>), content |-> <<>>],
     [kind |-> "error", obs |-> NoObs, content |-> <<>>]}

\* the 6 s build and the bubble build with the unmount: no press and no render follow it, the pending
\* timeouts and the calls in flight still run, and captureFrame finds no video element
MountNext ==
    \/ Mounted /\ Render
    \/ Mounted /\ HandleEnter
    \/ \E granted \in BOOLEAN : Mounted /\ StartCamera(granted)
    \/ Mounted /\ HandleImmersiveAction
    \/ StartAnalysis
    \/ \E r \in timers, frame \in BOOLEAN : (frame => Mounted) /\ Tick(r, frame)
    \/ \E i \in 1..Len(inflight), reply \in MountReplies : Complete(i, reply)
    \/ StopCamera

SpecMount == InitLoop /\ [][MountNext]_vars

\* replies for the runs against the clock: an Observation with brand and theory, a
\* boundary, and an Observation with a theory and an empty commentary
ClockReplies ==
    {[kind |-> "ok", obs |-> o, content |-> <<>>] :
        o \in { Obs(TwoSentences, "T1", "Acme", FALSE, <<>>),
                Obs(OneSentence, "T1", NULL, TRUE, Summary),
                Obs(<<>>, "T2", NULL, FALSE, <<>>) }}

ClockNext ==
    \/ Render
    \/ HandleEnter
    \/ StartCamera(TRUE)
    \/ Committed /\ HandleImmersiveAction
    \/ StartAnalysis
    \/ \E r \in timers : Tick(r, TRUE)
    \/ \E i \in 1..Len(inflight), reply \in ClockReplies : Complete(i, reply)
    \/ timers # {} /\ Second

\* the two builds with ad-boundary detection with Date.now() advancing while a tick
\* timer exists (the time between runs is not counted)
SpecClock == InitSeg /\ [][ClockNext]_vars

\* ------------------------------------------------------------ step kinds
\* the step is the continuation of an analyze call that returned a result
ResultStep == Len(inflight') < Len(inflight) /\ last'.op = "result"

\* the step is a press that ran stopAnalysis
StopStep == nPresses' = nPresses + 1 /\ last'.op = "stopAnalysis"

Truthy(x) == x \notin {NULL, ""}

\* the boundary condition as the claims state it
ClaimedBoundary(o) == o.isNewAd = TRUE /\ Len(o.adSummaryOneLiner) > 0

LastAd == completedAds[Len(completedAds)]

\* ---------------------------------------------------------------- claims
\* C1: the record a boundary tick appends has the boundary Observation's summary as
\* oneLiner and, as brandGuess, the sticky brand guess of the segment being closed,
\* else the Observation's own guess, else 'Unknown Brand'.
C1_BoundaryRecordUsesStickyBrand ==
    [][(ResultStep /\ ClaimedBoundary(last'.obs)) =>
          /\ Len(completedAds') = Len(completedAds) + 1
          /\ completedAds'[Len(completedAds')].oneLiner = last'.obs.adSummaryOneLiner
          /\ completedAds'[Len(completedAds')].brandGuess =
                 IF Truthy(analysis.brandGuess) THEN analysis.brandGuess
                 ELSE IF Truthy(last'.obs.brandGuess) THEN last'.obs.brandGuess
                 ELSE "Unknown Brand"]_vars

\* C2: with segmentation enabled, a tick that processes an Observation appends exactly
\* one record if isNewAd is true and adSummaryOneLiner is non-empty, and none otherwise.
C2_OneRecordIffBoundary ==
    [][(ResultStep /\ Segmenting(variant)) =>
          /\ Len(completedAds') =
                 Len(completedAds) + (IF ClaimedBoundary(last'.obs) THEN 1 ELSE 0)
          /\ SubSeq(completedAds', 1, Len(completedAds)) = completedAds]_vars

\* C2 witness: a boundary Observation was processed and the history holds its record
C2_Witness ==
    /\ last.op = "result"
    /\ ClaimedBoundary(last.obs)
    /\ Len(completedAds) = 1
    /\ LastAd.oneLiner = last.obs.adSummaryOneLiner

C4_StickyWithinSegment ==
    [][/\ (Truthy(analysis.brandGuess) /\ analysis'.brandGuess # analysis.brandGuess) =>
             \/ last'.op \in {"startAnalysis", "pressRestart"}
             \/ ResultStep /\ Segmenting(variant) /\ ClaimedBoundary(last'.obs)
             \/ ResultStep /\ Truthy(last'.obs.brandGuess)
                           /\ analysis'.brandGuess = last'.obs.brandGuess
       /\ (Truthy(analysis.currentTheory)
              /\ analysis'.currentTheory # analysis.currentTheory) =>
             \/ last'.op \in {"startAnalysis", "pressRestart"}
             \/ ResultStep /\ Segmenting(variant) /\ ClaimedBoundary(last'.obs)
             \/ ResultStep /\ Truthy(last'.obs.theory)
                           /\ analysis'.currentTheory = last'.obs.theory]_vars

\* C4 witness: an Observation without brand guess and theory was processed, no
\* boundary, and the segment still holds the guess and theory it had
C4_Witness ==
    /\ last.op = "result"
    /\ ~last.obs.isNewAd
    /\ ~Truthy(last.obs.brandGuess)
    /\ ~Truthy(last.obs.theory)
    /\ analysis.brandGuess = "Acme"
    /\ analysis.currentTheory = "T1"

\* C5: after stopAnalysis and before the next startAnalysis no tick timer is active.
C5_NoTimerAfterStop == stopped => timers = {}

\* C6: at most one analyze call is outstanding.
C6_OneCallOutstanding == Len(inflight) <= 1

\* C7: an analyze call that completes after stopAnalysis changes neither the running
\* segment, nor the history, nor the sentence queue, nor a rolling context.
C7_ResultAfterStopDiscarded ==
    [][(stopped /\ Len(inflight') < Len(inflight)) =>
          UNCHANGED <<analysis, completedAds, bubbleQueue, runs>>]_vars

\* C8: after stopAnalysis and before the next startAnalysis the sentence queue and the
\* visible bubble list are empty.
C8_NoBubbleAfterStop == stopped => (bubbleQueue = <<>> /\ commentaryBubbles = <<>>)

\* C9: a second stopAnalysis with no startAnalysis in between appends no record.
C9_SecondStopAppendsNothing ==
    [][(stopped /\ StopStep) => completedAds' = completedAds]_vars

\* whether the running segment has accrued commentary
SegmentHasCommentary ==
    \/ analysis.commentary # <<>>
    \/ analysisIntervalRef # 0 /\ runs[analysisIntervalRef].runningCommentary # <<>>

ClaimedLimitTick == IF variant = "seg6" THEN 200 ELSE 300

\* C11: counting every tick since the load, across stops and restarts, the limit state
\* is set on tick 200 (6 s build) or 300 (4 s build) and on no earlier tick, and that
\* tick captures no frame and issues no analyze call.
C11_LimitOnExactTick ==
    /\ [](HasGovernor(variant) => (sessionLimitHit <=> nTicks >= ClaimedLimitTick))
    /\ [][(HasGovernor(variant) /\ nTicks' = ClaimedLimitTick /\ nTicks' # nTicks) =>
             /\ ~sessionLimitHit /\ sessionLimitHit'
             /\ last'.op = "limit"
             /\ inflight' = inflight]_vars

\* C11 witness: the limit tick of the 4 s build, after a stop and a restart, with a
\* call of the tick before still outstanding
C11_Witness ==
    /\ variant = "bubble"
    /\ last.op = "limit"
    /\ nTicks = 300
    /\ totalAnalysisTime = 1200000
    /\ nPresses = 3
    /\ Len(runs) = 2
    /\ Len(inflight) = 1

\* C12: once sessionLimitHit is set it is never cleared and no analyze call is issued
\* any more, whatever presses, delayed starts and timer firings follow.
C12_LimitIsTerminal ==
    [][sessionLimitHit => (sessionLimitHit' /\ Len(inflight') <= Len(inflight)
                           /\ last'.op # "analyze")]_vars

\* C12 witness: after the limit a timer that the limit tick did not clear has fired,
\* and issued no call
C12_Witness ==
    /\ sessionLimitHit
    /\ nTicks > ClaimedLimitTick
    /\ last.op = "limit"
    /\ Len(runs) >= 2
    /\ analysis.isAnalyzing = FALSE

\* the step is a firing of the release timer that found a sentence
ReleaseStep == accentIndex' = accentIndex + 1

\* C13: the visible bubble list never holds more than 5 bubbles; a release onto a
\* list of 5 drops exactly the oldest and keeps the 5 newest in release order.
C13_AtMostFiveNewestKept ==
    /\ [](Len(commentaryBubbles) <= 5)
    /\ [][ReleaseStep =>
             /\ commentaryBubbles'[Len(commentaryBubbles')].text = Trim(Head(bubbleQueue))
             /\ IF Len(commentaryBubbles) < 5
                THEN SubSeq(commentaryBubbles', 1, Len(commentaryBubbles')- 1)
                         = commentaryBubbles
                ELSE SubSeq(commentaryBubbles', 1, 4) = Tail(commentaryBubbles)]_vars

\* C13 witness: six sentences were released in one run and the greeting, released
\* first, is no longer among the five visible bubbles
C13_Witness ==
    /\ last.op = "release"
    /\ nPresses = 1
    /\ accentIndex = 6
    /\ Len(commentaryBubbles) = 5
    /\ \A k \in 1..5 : \A m \in WATCHING_MESSAGES : commentaryBubbles[k].text # m

InBubbles(bubbles, b) == \E k \in 1..Len(bubbles) : bubbles[k] = b

IsPrefix(s, t) == Len(s) <= Len(t) /\ SubSeq(t, 1, Len(s)) = s

RECURSIVE Concat(_)
Concat(ss) == IF ss = <<>> THEN <<>> ELSE Head(ss) \o Concat(Tail(ss))

NoBlanks(t) == SelectSeq(t, LAMBDA x : x # " ")

\* C15: release is FIFO: a release takes exactly the sentence at the head of the
\* queue; any other step leaves the queue, appends to its end or clears it (start,
\* stop); and an Observation appends its sentences in the order of its text.
C15_ReleaseIsFifo ==
    [][/\ ReleaseStep =>
             /\ bubbleQueue # <<>>
             /\ bubbleQueue' = Tail(bubbleQueue)
             /\ commentaryBubbles'[Len(commentaryBubbles')].text = Trim(Head(bubbleQueue))
       /\ ~ReleaseStep =>
             \/ IsPrefix(bubbleQueue, bubbleQueue')
             \/ last'.op \in {"startAnalysis", "stopAnalysis"}
       /\ ResultStep =>
             /\ IsPrefix(bubbleQueue, bubbleQueue')
             /\ NoBlanks(Concat(SubSeq(bubbleQueue', Len(bubbleQueue) + 1, Len(bubbleQueue'))))
                    = NoBlanks(last'.obs.commentary)]_vars

\* C15 witness: the greeting, the two sentences of one Observation and the sentence
\* of the next were released in this order
C15_Witness ==
    /\ last.op = "release"
    /\ Len(commentaryBubbles) = 4
    /\ commentaryBubbles[1].text \in WATCHING_MESSAGES
    /\ commentaryBubbles[2].text = <<"a", ".">>
    /\ commentaryBubbles[3].text = <<"b", "!">>
    /\ commentaryBubbles[4].text = <<"c", ".">>

\* the step is a firing of the release timer that took a sentence off the queue
TookSentence == last'.op = "release" /\ bubbleQueue' # bubbleQueue

\* C16: lane and accent of a bubble depend only on the number k of bubbles released
\* before it since the load: left for even k, right for odd k, and accent green,
\* black, red for k mod 3 = 0, 1, 2; the count moves on releases only, stop and
\* restart leave it alone.
C16_LaneAndAccentByCount ==
    [][/\ (accentIndex' # accentIndex \/ bubblePosition' # bubblePosition) => TookSentence
       /\ TookSentence =>
             LET b == commentaryBubbles'[Len(commentaryBubbles')] IN
             /\ accentIndex' = accentIndex + 1
             /\ b.position = (IF accentIndex % 2 = 0 THEN "left" ELSE "right")
             /\ b.accent = (CASE accentIndex % 3 = 0 -> "green"
                              [] accentIndex % 3 = 1 -> "black"
                              [] OTHER -> "red")]_vars

\* C16 witness: the third bubble since the load, released after a stop and a restart,
\* is on the left and red
C16_Witness ==
    /\ last.op = "release"
    /\ nPresses = 3
    /\ Len(runs) = 2
    /\ accentIndex = 3
    /\ Len(commentaryBubbles) = 1
    /\ commentaryBubbles[1].position = "left"
    /\ commentaryBubbles[1].accent = "red"

\* the sentences the step appended to the queue
Pushed == SubSeq(bubbleQueue', Len(bubbleQueue) + 1, Len(bubbleQueue'))

IsMark(x) == x \in {".", "!", "?"}

\* C17: splitting cuts the commentary after each mark (. ! ?) that whitespace follows
\* and nowhere else, discards empty fragments and keeps the order; every bubble text
\* is trimmed and non-empty; "This is bad. Really bad!" gives "This is bad." and
\* "Really bad!".
C17_SplitAtMarks ==
    /\ [][(ResultStep /\ variant = "bubble") =>
             /\ IsPrefix(bubbleQueue, bubbleQueue')
             /\ NoBlanks(Concat(Pushed)) = NoBlanks(last'.obs.commentary)
             /\ Len(Pushed) =
                    Cardinality({i \in 1..Len(last'.obs.commentary) - 1 :
                                    /\ IsMark(last'.obs.commentary[i])
                                    /\ last'.obs.commentary[i + 1] = " "
                                    /\ \E j \in i + 1..Len(last'.obs.commentary) :
                                           last'.obs.commentary[j] # " "})
                    + (IF NoBlanks(last'.obs.commentary) = <<>> THEN 0 ELSE 1)
             /\ \A k \in 1..Len(Pushed) :
                    /\ NoBlanks(Pushed[k]) # <<>>
                    /\ k > 1 => Pushed[k][1] # " "
                    /\ k < Len(Pushed) => IsMark(Pushed[k][Len(Pushed[k])])
                    /\ \A i \in 1..Len(Pushed[k]) - 1 :
                           ~(IsMark(Pushed[k][i]) /\ Pushed[k][i + 1] = " "
                             /\ \E j \in i + 1..Len(Pushed[k]) : Pushed[k][j] # " ")
             /\ last'.obs.commentary = Example =>
                    Pushed = << <<"This", " ", "is", " ", "bad", ".">>,
                                <<"Really", " ", "bad", "!">> >>]_vars
    /\ [](\A k \in 1..Len(commentaryBubbles) :
             /\ commentaryBubbles[k].text # <<>>
             /\ commentaryBubbles[k].text[1] # " "
             /\ commentaryBubbles[k].text[Len(commentaryBubbles[k].text)] # " ")

\* C17 witness: both sentences of the example are visible as bubbles
C17_Witness ==
    /\ Len(commentaryBubbles) >= 2
    /\ commentaryBubbles[Len(commentaryBubbles) - 1].text = <<"This", " ", "is", " ", "bad", ".">>
    /\ commentaryBubbles[Len(commentaryBubbles)].text = <<"Really", " ", "bad", "!">>
    /\ bubbleQueue = <<>>

\* C18: at most one tick timer exists; a startAnalysis that finds a timer active does
\* not leave two timers ticking.
C18_AtMostOneTimer == Cardinality(timers) <= 1

\* the step is the return of an analyze call that failed
FailedStep == Len(inflight') < Len(inflight) /\ last'.op = "noResult"

\* C19: a failed analyze call sets the error message and stops nothing: the timers
\* stay as they are, and the history, the running segment, the rolling contexts and
\* the sentence queue are unchanged; a later successful call is processed as ever.
C19_FailedCallKeepsLoop ==
    [][/\ FailedStep =>
             /\ error' \in {"failed", "rateLimit"}
             /\ UNCHANGED <<timers, analysisIntervalRef, completedAds, currentAdStart,
                            analysis, runs, bubbleQueue>>
       /\ (ResultStep /\ error # NULL) =>
             /\ error' = error
             /\ runs'[last'.run].contextWindow =
                    [empty |-> FALSE, theory |-> last'.obs.theory,
                     recent |-> last'.obs.commentary]
             /\ runs'[last'.run].runningCommentary # <<>>
             /\ runs'[last'.run].runningCommentary[Len(runs'[last'.run].runningCommentary)]
                    = last'.obs.commentary
             /\ Truthy(last'.obs.brandGuess) => analysis'.brandGuess = last'.obs.brandGuess]_vars

\* C19 witness: the first call of a run hit the rate limit, its timer ticked on and
\* the Observation of the second call was processed
C19_Witness ==
    /\ last.op = "result"
    /\ error = "rateLimit"
    /\ nTicks = 2
    /\ inflight = <<>>
    /\ last.run \in timers
    /\ runs[last.run].runningCommentary = <<last.obs.commentary>>
    /\ analysis.brandGuess = "Acme"

\* C20: for each address, within one window (from its first counted request until
\* one hour later) at most 400 requests are forwarded to the backend; every further
\* request of the address in that window is answered 429 and not forwarded.
C20_AtMost400PerWindow ==
    /\ [](\A ip \in IPs : forwardedInWindow[ip] <= 400)
    /\ [][\A ip \in IPs :
             (/\ response' # response \/ rateLimitMap' # rateLimitMap
              /\ response'.ip = ip
              /\ rateLimitMap'[ip] # rateLimitMap[ip]
              /\ forwardedInWindow[ip] = 400
              /\ windowStart[ip] >= 0
              /\ serverNow <= windowStart[ip] + 3600000) =>
                 /\ response'.status = 429
                 /\ ~response'.forwarded
                 /\ forwardedInWindow'[ip] = 400]_vars

\* C20 witness: the 401st request of an address, sent at the very end of its window
\* while another address is still served, was answered 429 and not forwarded
C20_Witness ==
    /\ response.ip = "a"
    /\ response.status = 429
    /\ ~response.forwarded
    /\ forwardedInWindow["a"] = 400
    /\ rateLimitMap["a"].count = 401
    /\ serverNow = rateLimitMap["a"].resetTime
    /\ forwardedInWindow["b"] = 1

\* the step processed the Observation made of a reply that is no JSON
FallbackStep ==
    /\ ResultStep
    /\ last'.obs.commentary = <<"x", ".", " ", "y", "?", " ", " ", "z", "!">>

\* C21: a reply that does not parse becomes a commentary-only Observation (non-empty
\* commentary, isNewAd false, no brand guess); the tick appends no record and leaves
\* theory and brandGuess of the running segment as they were before the tick.
C21_FallbackKeepsTheoryAndBrand ==
    [][FallbackStep =>
          /\ last'.obs.commentary # <<>>
          /\ last'.obs.isNewAd = FALSE
          /\ ~Truthy(last'.obs.brandGuess)
          /\ completedAds' = completedAds
          /\ analysis'.currentTheory = analysis.currentTheory
          /\ analysis'.brandGuess = analysis.brandGuess]_vars

\* the step appended one record to the history
SavedStep == Len(completedAds') = Len(completedAds) + 1

\* C22: every record of the history has endTime >= startTime, a non-empty oneLiner and
\* a non-empty brandGuess; a stop that saves writes the canned phrase when the one-liner
\* it was given is empty and 'Unknown Brand' when the brand it was given is empty.
C22_RecordsWellFormed ==
    /\ [](\A i \in 1..Len(completedAds) :
            /\ completedAds[i].endTime >= completedAds[i].startTime
            /\ completedAds[i].oneLiner # <<>>
            /\ Truthy(completedAds[i].brandGuess))
    /\ [][(StopStep /\ SavedStep) =>
            /\ LastText(view.analysis.commentary) = <<>> => LastAd'.oneLiner = Delusion
            /\ ~Truthy(view.analysis.brandGuess) => LastAd'.brandGuess = UnknownBrand]_vars

\* a stop saved a record whose segment lasted and whose last commentary was empty
C22_Witness ==
    /\ last.op = "stopAnalysis"
    /\ completedAds # <<>>
    /\ LastAd.oneLiner = Delusion
    /\ LastAd.brandGuess = UnknownBrand
    /\ LastAd.startTime < LastAd.endTime

\* C23: the history is append-only: every step leaves it as it is or appends exactly
\* one record at its end, so no record is removed, reordered or modified; its records
\* are in non-decreasing order of endTime.
C23_HistoryAppendOnly ==
    /\ [][\/ completedAds' = completedAds
          \/ /\ SavedStep
             /\ SubSeq(completedAds', 1, Len(completedAds)) = completedAds]_vars
    /\ [](\A i, j \in 1..Len(completedAds) :
            i <= j => completedAds[i].endTime <= completedAds[j].endTime)

\* a boundary tick saved a record and a later stop saved the next one after it
C23_Witness ==
    /\ Len(completedAds) = 2
    /\ completedAds[1].oneLiner = Summary
    /\ last.op = "stopAnalysis"
    /\ completedAds[1].endTime < completedAds[2].endTime

\* C24: in the bubble build no tick appends a record, whatever isNewAd and
\* adSummaryOneLiner of its Observation are; the history grows through stopAnalysis
\* alone.
C24_BubbleSavesOnStopOnly ==
    [][variant = "bubble" =>
          /\ ResultStep => completedAds' = completedAds
          /\ completedAds' # completedAds => StopStep]_vars

\* an Observation with isNewAd and a summary was processed after an earlier one, and
\* the history is still empty
C24_Witness ==
    /\ variant = "bubble"
    /\ last.op = "result"
    /\ ClaimedBoundary(last.obs)
    /\ Len(runs[last.run].runningCommentary) >= 2
    /\ Truthy(analysis.brandGuess)
    /\ completedAds = <<>>

\* the step ran startAnalysis
StartStep == Len(pendingStarts') < Len(pendingStarts)

\* C25: startAnalysis creates a tick timer and sets isAnalyzing only if the camera
\* stream is active at the moment it runs; with the stream inactive it changes nothing:
\* no timer, no state reset, no queue change.
C25_StartOnlyWhileStreaming ==
    [][StartStep =>
          /\ (timers' # timers \/ (analysis'.isAnalyzing /\ ~analysis.isAnalyzing))
                => camera = "on"
          /\ camera # "on" =>
                UNCHANGED <<timers, analysisIntervalRef, analysis, runs, currentAdStart,
                            bubbleQueue, commentaryBubbles>>]_vars

\* the step is a tick for which captureFrame returned no snapshot
NoFrameStep == nTicks' = nTicks + 1 /\ last'.op = "noFrame"

\* C26: a tick that gets no snapshot issues no analyze call, sets no error and leaves
\* the segment, the history, the rolling context and the bubble queue as they are;
\* the timer stays, so the loop keeps ticking.
C26_NoFrameTickIsIdle ==
    [][NoFrameStep =>
          /\ inflight' = inflight
          /\ error' = error
          /\ analysis' = analysis
          /\ completedAds' = completedAds
          /\ runs' = runs
          /\ bubbleQueue' = bubbleQueue
          /\ timers' = timers
          /\ last'.run \in timers'
          /\ analysisIntervalRef' = analysisIntervalRef]_vars

\* a tick of a run that has a context, a theory and queued sentences got no snapshot
C26_Witness ==
    /\ last.op = "noFrame"
    /\ last.run = analysisIntervalRef
    /\ ~runs[last.run].contextWindow.empty
    /\ analysis.currentTheory # ""
    /\ bubbleQueue # <<>>

\* the step sent an analyze request
RequestStep == Len(inflight') > Len(inflight)

\* C27: once the proxy has answered a request with 429 and a reset time, the loop
\* sends no further request before that time; and the requests of the loop are never
\* less than the tick interval apart.
C27_NoRequestBeforeReset ==
    /\ [][(RequestStep /\ response.status = 429 /\ response.retryAfter >= 0) =>
             now' >= serverNow + response.retryAfter * 1000]_vars
    /\ [][RequestStep => now' - now >= TickMs(variant)]_vars

\* the commentary texts of the Observations processed in the running segment
SegmentCommentary == runs[analysisIntervalRef].runningCommentary

\* C28: the record stopAnalysis saves has as oneLiner the commentary of the most recent
\* Observation processed in the running segment, and 'They tried.' only when the
\* segment received no commentary.
C28_StopOneLinerIsLatestCommentary ==
    [][(StopStep /\ SavedStep /\ analysisIntervalRef # 0) =>
          LastAd'.oneLiner = IF SegmentCommentary = <<>> THEN TheyTried
                             ELSE SegmentCommentary[Len(SegmentCommentary)]]_vars

\* C29: the commentaryLog of every record is exactly the ordered commentary texts of
\* all Observations processed in the segment it closes, on the boundary path and on
\* the stop path, however many Observations the segment received.  (Stated for the
\* runs whose timer is the only one.)
C29_LogHoldsWholeSegment ==
    [][/\ (ResultStep /\ SavedStep /\ timers = {last'.run}) =>
             LastAd'.commentaryLog = runs[last'.run].runningCommentary
       /\ (StopStep /\ SavedStep /\ timers = {analysisIntervalRef}) =>
             LastAd'.commentaryLog = SegmentCommentary]_vars

\* the step processed an Observation in run r
ResultIn(r) == ResultStep /\ last'.run = r

\* C30: the context sent with a call is the one its run holds: empty until the run has
\* processed an Observation, and then made of the theory and the commentary of the
\* Observation the run processed last, never of more; a failed call, a tick without a
\* snapshot and every other step leave it as it is.
C30_ContextIsLatestObservation ==
    /\ [][/\ \A r \in 1..Len(runs) :
                runs'[r].contextWindow =
                    IF ResultIn(r)
                    THEN [empty |-> FALSE, theory |-> last'.obs.theory,
                          recent |-> last'.obs.commentary]
                    ELSE runs[r].contextWindow
          /\ Len(runs') > Len(runs) => runs'[Len(runs')].contextWindow = NoContext
          /\ RequestStep =>
                inflight'[Len(inflight')].context = runs[last'.run].contextWindow]_vars
    /\ [](\A r \in 1..Len(runs) :
            IF runs[r].runningCommentary = <<>>
            THEN runs[r].contextWindow = NoContext
            ELSE /\ ~runs[r].contextWindow.empty
                 /\ runs[r].contextWindow.recent =
                        runs[r].runningCommentary[Len(runs[r].runningCommentary)])

\* a call was sent after its run had processed two Observations, with the theory and
\* the commentary of the second
C30_Witness ==
    /\ last.op = "analyze"
    /\ runs[last.run].runningCommentary = <<TwoSentences, OneSentence>>
    /\ inflight[Len(inflight)].context =
           [empty |-> FALSE, theory |-> "", recent |-> OneSentence]

\* the step is the continuation of a tick after its analyze call
AnswerStep == Len(inflight') < Len(inflight)

\* the tick applied all of its updates for the Observation o in run r
AllApplied(r, o) ==
    /\ runs'[r].runningCommentary = Append(runs[r].runningCommentary, o.commentary)
    /\ runs'[r].contextWindow = [empty |-> FALSE, theory |-> o.theory,
                                 recent |-> o.commentary]
    /\ Len(bubbleQueue') >= Len(bubbleQueue)
    /\ analysis'.currentTheory = JsOr(o.theory, analysis.currentTheory)

\* the tick applied none of them
NoneApplied == UNCHANGED <<runs, analysis, bubbleQueue, completedAds>>

\* C31: a tick is atomic with respect to errors: whatever the analyzer returned
\* (success, failure, rate limit, malformed or schema-incomplete reply), the tick
\* applies all of its updates (commentary log, segment fields, sentence queue, rolling
\* context) or none, and no exception leaves the callback.
C31_TickAllOrNothing ==
    [][AnswerStep =>
          /\ AllApplied(last'.run, last'.obs) \/ NoneApplied
          /\ last'.op # "threw"]_vars

\* the step is the tick that finds the budget spent, its timer being the only one
LimitStep ==
    /\ nTicks' = nTicks + 1
    /\ last'.op = "limit"
    /\ ~sessionLimitHit
    /\ timers = {analysisIntervalRef}

\* C32: the tick that finds the budget exhausted stops the loop with the effects of a
\* stop: its timer is cancelled, isAnalyzing becomes false, the limit is signalled, a
\* running segment with a theory or a brand guess is saved to the history, and in the
\* bubble build the sentence queue and the visible bubbles are cleared.
C32_LimitStopsLikeStop ==
    [][LimitStep =>
          /\ last'.run \notin timers'
          /\ ~analysis'.isAnalyzing
          /\ sessionLimitHit'
          /\ (Truthy(analysis.brandGuess) \/ Truthy(analysis.currentTheory)) =>
                Len(completedAds') = Len(completedAds) + 1
          /\ variant = "bubble" => (bubbleQueue' = <<>> /\ commentaryBubbles' = <<>>)]_vars

\* C33: every record carries as startTime the time at which the segment it closes
\* began (the start of the loop or the boundary before), so the records of the history
\* do not overlap: each starts no earlier than the one before it ended.
C33_RecordsDoNotOverlap ==
    /\ [][SavedStep => LastAd'.startTime = currentAdStart]_vars
    /\ [](\A i \in 1..Len(completedAds) - 1 :
            completedAds[i + 1].startTime >= completedAds[i].endTime)

\* the step is a firing of the interval callback
TickStep == nTicks' = nTicks + 1

\* C34: the cumulative analysis time never decreases and no stop, start, restart or
\* camera stop resets it; every tick that runs adds exactly its nominal duration (4 s
\* in the bubble build, 6 s in the 6 s build), also when it gets no frame or its call
\* fails, and no other step changes the counter.
C34_CounterOnlyGrowsByTicks ==
    [][/\ totalAnalysisTime' >= totalAnalysisTime
       /\ TickStep => totalAnalysisTime' =
                         totalAnalysisTime + (IF variant = "seg6" THEN 6000 ELSE 4000)
       /\ ~TickStep => totalAnalysisTime' = totalAnalysisTime]_vars

\* two ticks were counted, one before a stop and a restart and one whose call failed,
\* and the camera was stopped after them
C34_Witness ==
    /\ totalAnalysisTime = 8000
    /\ camera = "stopped"
    /\ Len(runs) = 2
    /\ nPresses = 3
    /\ error = "failed"

\* the step is a startAnalysis that found the stream on
StartedStep == StartStep /\ last'.op = "startAnalysis"

\* C35: a start or restart begins the run from an empty running segment (no commentary,
\* empty theory, no brand guess, no tropes, empty rolling context) and, in the bubble
\* build, from a queue holding the opening message alone and no bubbles; the history,
\* the cumulative time and the lane and accent counters are left as they are.
C35_StartFromEmptySegment ==
    [][StartedStep =>
          /\ analysis' = [EmptyAnalysis EXCEPT !.isAnalyzing = TRUE]
          /\ Len(runs') = Len(runs) + 1
          /\ runs'[Len(runs')].contextWindow = NoContext
          /\ runs'[Len(runs')].runningCommentary = <<>>
          /\ variant = "bubble" =>
                /\ Len(bubbleQueue') = 1
                /\ bubbleQueue'[1] \in WATCHING_MESSAGES
                /\ commentaryBubbles' = <<>>
          /\ UNCHANGED <<completedAds, totalAnalysisTime, bubblePosition, accentIndex>>]_vars

\* a restart of the bubble build after a run that left a record, counted time and
\* released bubbles
C35_Witness ==
    /\ variant = "bubble"
    /\ last.op = "startAnalysis"
    /\ Len(runs) = 2
    /\ completedAds # <<>>
    /\ totalAnalysisTime > 0
    /\ accentIndex >= 2
    /\ runs[1].runningCommentary # <<>>

\* the step is a request of ip that checkRateLimit counted
CountedStep(ip) ==
    /\ rateLimitMap'[ip] # rateLimitMap[ip]
    /\ rateLimitMap'[ip] # NoEntry
    /\ response'.ip = ip

\* C36: for every address, the first request that arrives after the resetTime of its
\* window opens a new window with count 1 and is allowed, however many requests the
\* address sent in the old window.
C36_ServedAgainAfterReset ==
    [][\A ip \in IPs :
          (/\ CountedStep(ip)
           /\ rateLimitMap[ip] # NoEntry
           /\ serverNow > rateLimitMap[ip].resetTime) =>
              /\ rateLimitMap'[ip] =
                     [count |-> 1, resetTime |-> serverNow + RATE_LIMIT_WINDOW_MS]
              /\ response'.forwarded
              /\ response'.retryAfter < 0
              /\ response'.remaining = RATE_LIMIT_MAX - 1]_vars

\* the first request of an address after the end of its window was forwarded and
\* counted as the first of a new window
C36_Witness ==
    /\ response.ip = "a"
    /\ response.forwarded
    /\ response.status = 200
    /\ serverNow = RATE_LIMIT_WINDOW_MS + 1
    /\ rateLimitMap["a"] = [count |-> 1, resetTime |-> 2 * RATE_LIMIT_WINDOW_MS + 1]
    /\ windowStart["a"] = serverNow

\* what the claims say of X-RateLimit-Remaining and of the count, for a counted
\* request of ip
RemainingAsClaimed(ip) ==
    /\ response'.remaining =
           (IF rateLimitMap'[ip].count >= 400 THEN 0 ELSE 400 - rateLimitMap'[ip].count)
    /\ response'.remaining >= 0
    /\ ~response'.forwarded =>
           /\ response'.status = 429
           /\ response'.remaining = 0
           /\ rateLimitMap'[ip].count = rateLimitMap[ip].count + 1

\* Retry-After is the whole seconds, rounded up, until the resetTime of the window
RetryAfterToReset(ip) ==
    /\ response'.retryAfter >= 0
    /\ (response'.retryAfter - 1) * 1000 < rateLimitMap'[ip].resetTime - serverNow
    /\ response'.retryAfter * 1000 >= rateLimitMap'[ip].resetTime - serverNow

\* C37 as stated: every response past the API-key check carries X-RateLimit-Remaining
\* = max(0, 400 - count), never negative and 0 on every rejected request; rejected
\* requests keep counting; and every 429 response carries a Retry-After of the whole
\* seconds, rounded up, until the resetTime of the window, never negative.
C37_Every429HasRetryAfter ==
    [][\A ip \in IPs :
          CountedStep(ip) =>
              /\ RemainingAsClaimed(ip)
              /\ response'.status = 429 => RetryAfterToReset(ip)]_vars

\* C37 amended: the same, with the Retry-After on every request the limiter rejects;
\* a forwarded request carries none, also when the backend answers it with 429.
C37_RejectedHasRetryAfter ==
    [][\A ip \in IPs :
          CountedStep(ip) =>
              /\ RemainingAsClaimed(ip)
              /\ IF response'.forwarded
                 THEN response'.retryAfter < 0
                 ELSE RetryAfterToReset(ip)]_vars

\* a request beyond the limit was rejected one millisecond into the window, with
\* Retry-After 3600 and nothing remaining, and counted
C37_Witness ==
    /\ response.ip = "a"
    /\ response.status = 429
    /\ ~response.forwarded
    /\ response.remaining = 0
    /\ response.retryAfter = 3600
    /\ serverNow = 1
    /\ rateLimitMap["a"].count = 402

\* C38: the ids of the records of the history are unique, also for two records made
\* in quick succession (a boundary followed at once by a stop, or two stops).
C38_RecordIdsUnique ==
    \A i, j \in 1..Len(completedAds) : i # j => completedAds[i].id # completedAds[j].id

\* a sweep of the cleanup interval: an entry of the map is deleted
SweepStep == \E ip \in IPs : rateLimitMap[ip] # NoEntry /\ rateLimitMap'[ip] = NoEntry

\* the times of the requests that may follow
TimesFrom(t) == {t + ms : ms \in {0, 1, RATE_LIMIT_WINDOW_MS, RATE_LIMIT_WINDOW_MS + 1}}

\* C39: a sweep of the cleanup interval is unobservable: for every address, a request
\* at the time of the sweep or later gets the same decision, the same remaining value,
\* the same resetTime and leaves the same entry as it would have without the sweep.
C39_CleanupUnobservable ==
    [][SweepStep =>
          \A ip \in IPs : \A t \in TimesFrom(serverNow) :
              CheckRateLimit(ip, t)' = CheckRateLimit(ip, t)]_vars

\* "b" was served in the first window and its entry swept after it; "a", counted in
\* the first window too, is served again in a window of its own
C39_Witness ==
    /\ windowStart["b"] = 0
    /\ rateLimitMap["b"] = NoEntry
    /\ windowStart["a"] = RATE_LIMIT_WINDOW_MS + 1
    /\ rateLimitMap["a"] = [count |-> 1, resetTime |-> 2 * RATE_LIMIT_WINDOW_MS + 1]
    /\ response.ip = "a"
    /\ response.remaining = RATE_LIMIT_MAX - 1
    /\ response.forwarded

====
